---- MODULE Spec2Model ----
(***************************************************************************)
(* Model of the GLB screening pipeline: the mesh validator                 *)
(* (src/src/glb_checker/glb_validator.py) and the download / validate /    *)
(* export orchestration (src/src/main.py).                                 *)
(*                                                                         *)
(* Two specifications share the module:                                    *)
(*   SpecV - GLBMeshValidator.validate applied to one loaded object drawn  *)
(*           from a bounded set of inputs;                                 *)
(*   Spec  - main(): the two pool.map stages over the catalog, the         *)
(*           sequential objaverse stage and the final counts, with the     *)
(*           output filesystem as shared state.                            *)
(***************************************************************************)
EXTENDS Integers, Sequences, FiniteSets, TLC

VARIABLES
    loaded,       \* SpecV: the object trimesh.load returns for mesh_path
    report        \* SpecV: what validate() produced (NoReport before the call)

VARIABLES
    fate,                \* per asset: what the world outside the program does for it
    download_args,       \* main: the list given to the first pool.map (indices, in order)
    poolSize,            \* cpu_count()
    mainpc,              \* where main() is
    queue,               \* tasks of the current stage not yet taken by a worker
    pc,                  \* per asset: where its running task is ("idle": none running)
    held,                \* per asset: `reasons` of the running validation task
    dirs,                \* directories that exist under save_dir
    files,               \* files that exist under save_dir
    download_results,    \* per asset: what download_glb_file returned
    validation_args,     \* per asset: the file_path validate_and_convert_glb was given
    validation_results,  \* per asset: what validate_and_convert_glb returned or raised
    calls,               \* per asset: how often each of the two functions was called
    counts               \* the two valid counts main logs at the end

(***************************************************************************)
(* Bounds of the enumerated inputs.                                        *)
(***************************************************************************)
MaxRuns == 2        \* runs in the run-length encoded face list of a mesh
MaxGeoms == 3       \* geometries in a loaded Scene

(***************************************************************************)
(* Program constants of GLBMeshValidator.                                  *)
(***************************************************************************)
MAX_FACES == 64000
\* SEVERITY_THRESHOLD = 0.7, kept as the exact fraction 7/10.  For face
\* counts far below 2^53 the float comparison k/n > 0.7 agrees with
\* 10*k > 7*n: the division is correctly rounded and 0.7 is the double
\* nearest to 7/10.
SEVERITY_THRESHOLD_NUM == 7
SEVERITY_THRESHOLD_DEN == 10

(***************************************************************************)
(* Entries of self.errors.  A message is its text's fixed part (tag), the  *)
(* number it interpolates (n) and the type name it interpolates (type).    *)
(***************************************************************************)
Msg(tag) == [tag |-> tag, n |-> 0, type |-> ""]
MsgN(tag, n) == [tag |-> tag, n |-> n, type |-> ""]
MsgT(tag, type) == [tag |-> tag, n |-> 0, type |-> type]

\* Python's None.
None == [kind |-> "None"]

\* Truth value of an object in `if not mesh` / `if converted_mesh`: None is
\* false, an object of a class that defines neither __bool__ nor __len__ is
\* true.
Truthy(obj) == obj.kind # "None"

(***************************************************************************)
(* Meshes.  The faces of a Trimesh are run-length encoded: a run is an     *)
(* outcome of the per-face probe (what the loop body of                    *)
(* detect_severe_self_intersections meets at that face) and the number of  *)
(* consecutive faces with that outcome.                                    *)
(*   hit        in_collision_single returned a collision                   *)
(*   miss       in_collision_single returned no collision                  *)
(*   malformed  mesh.vertices[face] has a shape other than (3, 3)          *)
(*   error      the probe construction or the collision query raised       *)
(***************************************************************************)
FaceOutcomes == {"hit", "miss", "malformed", "error"}
RunCounts == {1, 3, 7, MAX_FACES}
DiagCounts == {1, 2}

FaceRuns ==
    [outcome : {"hit", "miss"}, count : RunCounts]
        \cup [outcome : {"malformed", "error"}, count : DiagCounts]

RECURSIVE SeqsUpTo(_, _)
SeqsUpTo(S, n) ==
    IF n = 0 THEN {<<>>}
    ELSE LET shorter == SeqsUpTo(S, n - 1)
         IN shorter \cup {Append(s, x) : s \in {t \in shorter : Len(t) = n - 1}, x \in S}

RECURSIVE SumCounts(_)
SumCounts(runs) ==
    IF runs = <<>> THEN 0 ELSE Head(runs).count + SumCounts(Tail(runs))

\* len(mesh.faces)
NFaces(mesh) == SumCounts(mesh.faces)

Trimeshes ==
    {m \in [kind : {"Trimesh"},
            faces : SeqsUpTo(FaceRuns, MaxRuns),
            degenerate : BOOLEAN,       \* np.any(mesh.area_faces < 1e-10)
            winding : BOOLEAN,          \* mesh.is_winding_consistent
            index_ok : BOOLEAN] :       \* CollisionManager() / add_object do not raise
        m.degenerate => SumCounts(m.faces) > 0}

Cube ==
    [kind |-> "Trimesh", faces |-> <<[outcome |-> "miss", count |-> 7]>>,
     degenerate |-> FALSE, winding |-> TRUE, index_ok |-> TRUE]
Folded ==
    [kind |-> "Trimesh", faces |-> <<[outcome |-> "hit", count |-> 7]>>,
     degenerate |-> TRUE, winding |-> FALSE, index_ok |-> TRUE]
SmallTrimeshes == {Cube, Folded}

Path3Ds ==
    [kind : {"Path3D"}, conv : {"mesh"}, mesh : SmallTrimeshes]
        \cup [kind : {"Path3D"}, conv : {"none", "raise"}, mesh : {None}]

PointCloud == [kind |-> "PointCloud"]

SmallGeoms == SmallTrimeshes \cup {PointCloud}

Scenes ==
    [kind : {"Scene"},
     geometry : {<<>>}
         \cup {<<g>> : g \in Trimeshes \cup Path3Ds \cup {PointCloud}}
         \cup {s \in SeqsUpTo(SmallGeoms, MaxGeoms) : Len(s) > 1}]

LoadFailure == [kind |-> "LoadFailure"]

\* Everything trimesh.load(self.mesh_path) can produce: an object of one of
\* the library's geometry classes, or an exception (LoadFailure).
LoadedObjects == Trimeshes \cup Path3Ds \cup Scenes \cup {PointCloud, LoadFailure}

(***************************************************************************)
(* GLBMeshValidator.  Every method takes self.errors and gives back        *)
(* [ret, errors, raised]: its return value, self.errors afterwards, and    *)
(* whether it left by an exception instead of returning.                   *)
(***************************************************************************)
Returned(ret, errors) == [ret |-> ret, errors |-> errors, raised |-> FALSE]
Raised(errors) == [ret |-> None, errors |-> errors, raised |-> TRUE]

extract_first_mesh_from_scene(scene, errors) ==
    IF Len(scene.geometry) > 0
    THEN Returned(scene.geometry[1], errors)
    ELSE Returned(None, Append(errors, Msg("Scene contains no meshes.")))

\* path_obj.to_mesh() gives a mesh, gives a false value, or raises.
convert_path3d_to_mesh(path_obj, errors) ==
    LET detected == Append(errors, Msg("Detected Path3D object."))
    IN  CASE path_obj.conv = "raise" -> Raised(detected)
          [] path_obj.conv = "mesh" ->
                Returned(path_obj.mesh,
                         Append(detected, Msg("Converted Path3D to Trimesh.")))
          [] OTHER ->
                Returned(path_obj,
                         Append(detected, Msg("Failed to convert Path3D to mesh.")))

\* load_mesh's try block without the test for more than one geometry: the
\* first geometry of any scene is taken.
load_mesh_try_first_geometry(obj, errors) ==
    CASE obj.kind = "LoadFailure" -> Raised(errors)
      [] obj.kind = "Scene" -> extract_first_mesh_from_scene(obj, errors)
      [] obj.kind = "Path3D" -> convert_path3d_to_mesh(obj, errors)
      [] obj.kind # "Trimesh" ->
            Returned(None, Append(errors, MsgT("Invalid mesh type", obj.kind)))
      [] OTHER -> Returned(obj, errors)

\* The body of load_mesh's try block.
load_mesh_try(obj, errors) ==
    CASE obj.kind = "LoadFailure" -> Raised(errors)
      [] obj.kind = "Scene" ->
            IF Len(obj.geometry) > 1
            THEN Returned(None,
                          Append(errors,
                                 MsgN("Scene contains multiple objects", Len(obj.geometry))))
            ELSE extract_first_mesh_from_scene(obj, errors)
      [] obj.kind = "Path3D" -> convert_path3d_to_mesh(obj, errors)
      [] obj.kind # "Trimesh" ->
            Returned(None, Append(errors, MsgT("Invalid mesh type", obj.kind)))
      [] OTHER -> Returned(obj, errors)

load_mesh(obj, errors) ==
    LET r == load_mesh_try(obj, errors)
    IN  IF r.raised
        THEN Returned(None, Append(r.errors, Msg("Error loading mesh")))
        ELSE r

\* A check reads mesh.faces, mesh.area_faces, mesh.vertices or
\* mesh.is_winding_consistent: on an object that is no Trimesh the attribute
\* lookup raises AttributeError.
check_face_count(mesh, errors) ==
    IF mesh.kind # "Trimesh" THEN Raised(errors)
    ELSE IF NFaces(mesh) > MAX_FACES
    THEN Returned(FALSE, Append(errors, MsgN("Too many faces", NFaces(mesh))))
    ELSE Returned(TRUE, errors)

check_empty_mesh(mesh, errors) ==
    IF mesh.kind # "Trimesh" THEN Raised(errors)
    ELSE IF NFaces(mesh) = 0
    THEN Returned(FALSE, Append(errors, Msg("Mesh has no faces.")))
    ELSE Returned(TRUE, errors)

\* check_degenerate_faces returning False without recording its reason.
check_degenerate_faces_silent(mesh, errors) ==
    IF mesh.kind # "Trimesh" THEN Raised(errors)
    ELSE IF mesh.degenerate THEN Returned(FALSE, errors)
    ELSE Returned(TRUE, errors)

check_degenerate_faces(mesh, errors) ==
    IF mesh.kind # "Trimesh" THEN Raised(errors)
    ELSE IF mesh.degenerate
    THEN Returned(FALSE, Append(errors, Msg("Mesh has degenerate faces.")))
    ELSE Returned(TRUE, errors)

\* `count` consecutive faces, the first with index i, each appending the
\* diagnostic `tag` with its own index.
RECURSIVE FaceDiagnostics(_, _, _, _)
FaceDiagnostics(errors, tag, i, count) ==
    IF count = 0 THEN errors
    ELSE FaceDiagnostics(Append(errors, MsgN(tag, i)), tag, i + 1, count - 1)

\* The for loop of detect_severe_self_intersections over the faces from
\* index i on; severe is len(severe_intersections) so far.
RECURSIVE ScanFaces(_, _, _, _)
ScanFaces(runs, i, severe, errors) ==
    IF runs = <<>> THEN [severe |-> severe, errors |-> errors]
    ELSE LET run == Head(runs)
         IN  CASE run.outcome = "malformed" ->
                    ScanFaces(Tail(runs), i + run.count, severe,
                              FaceDiagnostics(errors, "Skipping face", i, run.count))
               [] run.outcome = "error" ->
                    ScanFaces(Tail(runs), i + run.count, severe,
                              FaceDiagnostics(errors, "Error processing face", i, run.count))
               [] run.outcome = "hit" ->
                    ScanFaces(Tail(runs), i + run.count, severe + run.count, errors)
               [] OTHER ->
                    ScanFaces(Tail(runs), i + run.count, severe, errors)

\* The body of the outer try block; the division raises ZeroDivisionError
\* when the mesh has no face.
detect_try(mesh, errors) ==
    IF ~mesh.index_ok THEN Raised(errors)
    ELSE LET scan == ScanFaces(mesh.faces, 0, 0, errors)
         IN  IF NFaces(mesh) = 0 THEN Raised(scan.errors)
             ELSE IF scan.severe * SEVERITY_THRESHOLD_DEN
                        > SEVERITY_THRESHOLD_NUM * NFaces(mesh)
             THEN Returned(FALSE,
                           Append(scan.errors,
                                  MsgN("Severe self-intersections detected", scan.severe)))
             ELSE Returned(TRUE, scan.errors)

detect_severe_self_intersections(mesh, errors) ==
    IF mesh.kind # "Trimesh" THEN Raised(errors)
    ELSE LET r == detect_try(mesh, errors)
         IN  IF r.raised
             THEN Returned(FALSE, Append(r.errors, Msg("Error detecting self-intersections")))
             ELSE r

check_normals_consistency(mesh, errors) ==
    IF mesh.kind # "Trimesh" THEN Raised(errors)
    ELSE IF ~mesh.winding
    THEN Returned(FALSE,
                  Append(errors, Msg("Mesh has inconsistent face normal orientations.")))
    ELSE Returned(TRUE, errors)

\* The enabled entries of the `checks` list literal, in source order.
EnabledChecks ==
    <<"FaceCount", "EmptyMesh", "DegenerateFaces", "SelfIntersection",
      "WindingConsistency">>

RunCheck(name, mesh, errors) ==
    CASE name = "FaceCount" -> check_face_count(mesh, errors)
      [] name = "EmptyMesh" -> check_empty_mesh(mesh, errors)
      [] name = "DegenerateFaces" -> check_degenerate_faces(mesh, errors)
      [] name = "SelfIntersection" -> detect_severe_self_intersections(mesh, errors)
      [] OTHER -> check_normals_consistency(mesh, errors)

\* The checks as a fail-fast chain: evaluation stops at the first check that
\* returns False.
RECURSIVE EvalChecks_short_circuit(_, _, _)
EvalChecks_short_circuit(names, mesh, acc) ==
    IF names = <<>> \/ acc.raised \/ \E k \in 1..Len(acc.results) : ~acc.results[k]
    THEN acc
    ELSE LET r == RunCheck(Head(names), mesh, acc.errors)
         IN  EvalChecks_short_circuit(Tail(names), mesh,
                        [ran |-> Append(acc.ran, Head(names)),
                         results |-> IF r.raised THEN acc.results
                                     ELSE Append(acc.results, r.ret),
                         errors |-> r.errors,
                         raised |-> r.raised])

\* Evaluation of the list literal: each element is evaluated in order and an
\* exception ends the evaluation.  acc is [ran, results, errors, raised].
RECURSIVE EvalChecks(_, _, _)
EvalChecks(names, mesh, acc) ==
    IF names = <<>> \/ acc.raised THEN acc
    ELSE LET r == RunCheck(Head(names), mesh, acc.errors)
         IN  EvalChecks(Tail(names), mesh,
                        [ran |-> Append(acc.ran, Head(names)),
                         results |-> IF r.raised THEN acc.results
                                     ELSE Append(acc.results, r.ret),
                         errors |-> r.errors,
                         raised |-> r.raised])

\* validate(): [raised, passed, errors] is the outcome (the returned pair or
\* the exception); ran and results record which checks were invoked and
\* what each returned, mesh what load_mesh returned.
validate(obj) ==
    LET l == load_mesh(obj, <<>>)
    IN  IF ~Truthy(l.ret)
        THEN [raised |-> FALSE, passed |-> FALSE, errors |-> l.errors,
              ran |-> <<>>, results |-> <<>>, mesh |-> l.ret]
        ELSE LET c == EvalChecks(EnabledChecks, l.ret,
                                 [ran |-> <<>>, results |-> <<>>,
                                  errors |-> l.errors, raised |-> FALSE])
             IN  [raised |-> c.raised,
                  passed |-> ~c.raised /\ \A k \in 1..Len(c.results) : c.results[k],
                  errors |-> c.errors,
                  ran |-> c.ran, results |-> c.results, mesh |-> l.ret]

NoReport == [kind |-> "NoReport"]

(***************************************************************************)
(* The catalog and the output filesystem area (src/src/main.py).           *)
(* A string is the tuple of its characters where the program looks inside  *)
(* it (the index, in index.replace), a file name is <<stem, suffix>>.      *)
(***************************************************************************)
IndexA == <<"a", "/", "b">>
IndexB == <<"a", "_", "b">>
IndexC == <<"c">>
Indices == {IndexA, IndexB, IndexC}

\* gobjaverse_index_to_objaverse.json: index -> objaverse_id; of the id only
\* Path(objaverse_id).name is used for files.
ObjaverseName(index) ==
    CASE index = IndexA -> <<"x", "glb">>
      [] index = IndexB -> <<"y", "glb">>
      [] OTHER -> <<"z", "glb">>

\* The uid objaverse.load_uids() gives and that has textures; its file.
Uid == <<"u">>
Uids == <<Uid>>
UidName == <<"u", "glb">>

Assets == Indices \cup {Uid}

MaxCatalog == 2     \* entries of the catalog that are eligible
MaxPool == 2        \* cpu_count()

\* index.replace("/", "_")
Sanitize(index) == [i \in DOMAIN index |-> IF index[i] = "/" THEN "_" ELSE index[i]]

\* Path(save_dir) / index.replace("/", "_")
OutputDir(index) == Sanitize(index)

FileIn(dir, name) == [dir |-> dir, name |-> name]

NoPath == [dir |-> <<>>, name |-> <<>>]

\* shutil.rmtree(dir) on an existing directory: the directory and all in it.
RmtreeDirs(ds, dir) == ds \ {dir}
RmtreeFiles(fs, dir) == {f \in fs : f.dir # dir}

(***************************************************************************)
(* What is outside the program, fixed per asset for a run: whether the     *)
(* transfer succeeds, what the file loads as, whether texture extraction   *)
(* and the OBJ export succeed.                                             *)
(***************************************************************************)
SinglePointCloudScene == [kind |-> "Scene", geometry |-> <<PointCloud>>]

\* What a downloaded file loads as, by the name of the case.
FileContent(content) ==
    CASE content = "cube" -> Cube
      [] content = "folded" -> Folded
      [] OTHER -> SinglePointCloudScene

Fates ==
    {[dl |-> FALSE, content |-> "cube", tex |-> TRUE, exp |-> TRUE],
     [dl |-> TRUE, content |-> "folded", tex |-> TRUE, exp |-> TRUE],
     [dl |-> TRUE, content |-> "scene of one point cloud", tex |-> TRUE, exp |-> TRUE],
     [dl |-> TRUE, content |-> "cube", tex |-> FALSE, exp |-> TRUE],
     [dl |-> TRUE, content |-> "cube", tex |-> TRUE, exp |-> FALSE],
     [dl |-> TRUE, content |-> "cube", tex |-> TRUE, exp |-> TRUE]}

\* The objaverse model: load_objects fails, or the file is invalid, or its
\* texture extraction fails, or all goes well.
UidFates ==
    {f \in Fates : ~f.dl \/ f.content = "folded" \/ ~f.tex \/ (f.exp /\ f.content = "cube")}

NoResult == [kind |-> "NoResult"]

\* (index, objaverse_id, output_path, True, "") / (index, objaverse_id, None, False, stderr)
DownloadResult(success, path) == [kind |-> "download", success |-> success, path |-> path]

\* (index, objaverse_id, success, error_message)
ValidationResult(success, message, reasons) ==
    [kind |-> "validation", success |-> success, message |-> message, reasons |-> reasons]

\* The call left by an exception, raised at position `at` of the function.
RaisedResult(at) == [kind |-> "raised", at |-> at]

RECURSIVE SelectArgs(_, _)
SelectArgs(args, results) ==
    IF args = <<>> THEN <<>>
    ELSE IF results[Head(args)].success
         THEN <<Head(args)>> \o SelectArgs(Tail(args), results)
         ELSE SelectArgs(Tail(args), results)

\* valid_glb_files without the `if success` filter.
valid_glb_files_unfiltered(args, results) == args

\* valid_glb_files: the downloads that succeeded, in the order of the results.
valid_glb_files(args, results) == SelectArgs(args, results)

Range(seq) == {seq[k] : k \in 1..Len(seq)}

Running == {a \in Assets : pc[a] # "idle"}

\* Tasks that can run at once: the pool's workers, or main() itself in the
\* sequential loop over the objaverse models.
Workers == IF mainpc = "objaverse" THEN 1 ELSE poolSize

pvars ==
    <<fate, download_args, poolSize, mainpc, queue, pc, held, dirs, files,
      download_results, validation_args, validation_results, calls, counts>>

vars == <<loaded, report, fate, download_args, poolSize, mainpc, queue, pc, held,
          dirs, files, download_results, validation_args, validation_results,
          calls, counts>>

NoCounts == [kind |-> "NoCounts"]

\* The eligible catalog entries in the order of the mapping.  IndexA and
\* IndexB differ in nothing but their spelling, so of the catalogs that are
\* each other's image under exchanging the two, the one that has IndexA, and
\* has it first, stands for both.
Catalogs ==
    {s \in SeqsUpTo(Indices, MaxCatalog) :
        /\ Len(s) > 0
        /\ \A i, j \in 1..Len(s) : i # j => s[i] # s[j]
        /\ \A j \in 1..Len(s) : s[j] = IndexB => \E i \in 1..j : s[i] = IndexA}

\* main() up to the first pool.map: the eligible catalog entries, in the
\* order of the mapping, are queued for download.
PipelineStart ==
    /\ fate \in [Assets -> Fates]
    /\ fate[Uid] \in UidFates
    /\ download_args \in Catalogs
    /\ \A a \in Indices \ Range(download_args) : fate[a] = CHOOSE f \in Fates : TRUE
    /\ poolSize \in 1..MaxPool
    /\ mainpc = "download"
    /\ queue = download_args
    /\ pc = [a \in Assets |-> "idle"]
    /\ held = [a \in Assets |-> <<>>]
    /\ dirs = {}
    /\ files = {}
    /\ download_results = [a \in Assets |-> NoResult]
    /\ validation_args = [a \in Assets |-> NoPath]
    /\ validation_results = [a \in Assets |-> NoResult]
    /\ calls = [a \in Assets |-> [download |-> 0, validate |-> 0]]
    /\ counts = NoCounts

Init ==
    /\ PipelineStart
    /\ loaded = None
    /\ report = NoReport

(***************************************************************************)
(* download_glb_file, one action per step that other tasks can interleave  *)
(* with.                                                                   *)
(***************************************************************************)
\* A worker takes the next download task: output_dir.mkdir(parents, exist_ok).
DownloadStart(a) ==
    /\ mainpc = "download"
    /\ queue # <<>> /\ Head(queue) = a
    /\ Cardinality(Running) < Workers
    /\ queue' = Tail(queue)
    /\ calls' = [calls EXCEPT ![a].download = @ + 1]
    /\ dirs' = dirs \cup {OutputDir(a)}
    /\ pc' = [pc EXCEPT ![a] = "d_open"]
    /\ UNCHANGED <<fate, download_args, poolSize, mainpc, held, files,
                   download_results, validation_args, validation_results, counts,
                   loaded, report>>

\* wget opens its -O file: it is created if the directory is (still) there,
\* otherwise wget gives up.
WgetOpen(a) ==
    /\ mainpc = "download"
    /\ pc[a] = "d_open"
    /\ IF OutputDir(a) \in dirs
       THEN /\ files' = files \cup {FileIn(OutputDir(a), ObjaverseName(a))}
            /\ pc' = [pc EXCEPT ![a] = "d_transfer"]
       ELSE /\ files' = files
            /\ pc' = [pc EXCEPT ![a] = "d_failed"]
    /\ UNCHANGED <<fate, download_args, poolSize, mainpc, queue, held, dirs,
                   download_results, validation_args, validation_results, calls,
                   counts, loaded, report>>

\* wget exits and download_glb_file returns: on return code 0 the path, on
\* any other the directory is removed (ignore_errors=True) and None returned.
WgetExit(a) ==
    /\ mainpc = "download"
    /\ pc[a] \in {"d_transfer", "d_failed"}
    /\ IF pc[a] = "d_transfer" /\ fate[a].dl
       THEN /\ download_results' =
                  [download_results EXCEPT
                      ![a] = DownloadResult(TRUE, FileIn(OutputDir(a), ObjaverseName(a)))]
            /\ UNCHANGED <<dirs, files>>
       ELSE /\ download_results' =
                  [download_results EXCEPT ![a] = DownloadResult(FALSE, NoPath)]
            /\ dirs' = RmtreeDirs(dirs, OutputDir(a))
            /\ files' = RmtreeFiles(files, OutputDir(a))
    /\ pc' = [pc EXCEPT ![a] = "idle"]
    /\ UNCHANGED <<fate, download_args, poolSize, mainpc, queue, held,
                   validation_args, validation_results, calls, counts, loaded, report>>

\* The first pool.map has all its results: valid_glb_files is built and
\* given to the second pool.map.
DownloadStageDone ==
    /\ mainpc = "download"
    /\ queue = <<>>
    /\ Running = {}
    /\ mainpc' = "validate"
    /\ queue' = valid_glb_files(download_args, download_results)
    /\ validation_args' =
          [a \in Assets |->
              IF a \in Range(valid_glb_files(download_args, download_results))
              THEN download_results[a].path
              ELSE validation_args[a]]
    /\ UNCHANGED <<fate, download_args, poolSize, pc, held, dirs, files,
                   download_results, validation_results, calls, counts, loaded, report>>

(***************************************************************************)
(* validate_and_convert_glb, one action per step that other tasks can      *)
(* interleave with.                                                        *)
(***************************************************************************)
\* The call and its first test, `file_path and file_path.exists()`.
ValidateStart(a) ==
    /\ mainpc \in {"validate", "objaverse"}
    /\ queue # <<>> /\ Head(queue) = a
    /\ Cardinality(Running) < Workers
    /\ queue' = Tail(queue)
    /\ calls' = [calls EXCEPT ![a].validate = @ + 1]
    /\ IF validation_args[a] # NoPath /\ validation_args[a] \in files
       THEN /\ pc' = [pc EXCEPT ![a] = "v_validate"]
            /\ UNCHANGED validation_results
       ELSE /\ pc' = pc
            /\ validation_results' =
                  [validation_results EXCEPT
                      ![a] = ValidationResult(FALSE, "File does not exist", <<>>)]
    /\ UNCHANGED <<fate, download_args, poolSize, mainpc, held, dirs, files,
                   download_results, validation_args, counts, loaded, report>>

\* GLBMeshValidator(str(file_path)).validate(): trimesh.load raises when the
\* file is gone by now.  An exception of validate() is not caught here.
ValidatorRun(a) ==
    /\ mainpc \in {"validate", "objaverse"}
    /\ pc[a] = "v_validate"
    /\ LET r == validate(IF validation_args[a] \in files
                         THEN FileContent(fate[a].content) ELSE LoadFailure)
       IN  /\ held' = [held EXCEPT ![a] = r.errors]
           /\ IF r.raised
              THEN /\ pc' = [pc EXCEPT ![a] = "idle"]
                   /\ validation_results' =
                         [validation_results EXCEPT ![a] = RaisedResult("validate")]
              ELSE /\ pc' = [pc EXCEPT ![a] = IF r.passed THEN "v_extract"
                                              ELSE "v_rmtree_invalid"]
                   /\ UNCHANGED validation_results
    /\ UNCHANGED <<fate, download_args, poolSize, mainpc, queue, dirs, files,
                   download_results, validation_args, calls, counts, loaded, report>>

\* extract_pbr_textures(file_path) and save_json(output_dir/pbr_textures.json):
\* neither is inside a try.
ExtractTextures(a) ==
    /\ mainpc \in {"validate", "objaverse"}
    /\ pc[a] = "v_extract"
    /\ LET dir == OutputDir(a)
       IN  IF validation_args[a] \in files /\ fate[a].tex /\ dir \in dirs
           THEN /\ files' = files \cup {FileIn(dir, <<"pbr_textures", "json">>)}
                /\ pc' = [pc EXCEPT ![a] = "v_export"]
                /\ UNCHANGED validation_results
           ELSE /\ files' = files
                /\ pc' = [pc EXCEPT ![a] = "idle"]
                /\ validation_results' =
                      [validation_results EXCEPT ![a] = RaisedResult("extract")]
    /\ UNCHANGED <<fate, download_args, poolSize, mainpc, queue, held, dirs,
                   download_results, validation_args, calls, counts, loaded, report>>

\* The try block: trimesh.load(file_path), mesh.export(output_dir/stem.obj).
ExportObj(a) ==
    /\ mainpc \in {"validate", "objaverse"}
    /\ pc[a] = "v_export"
    /\ LET dir == OutputDir(a)
       IN  IF validation_args[a] \in files /\ fate[a].exp /\ dir \in dirs
           THEN /\ files' = files \cup {FileIn(dir, <<validation_args[a].name[1], "obj">>)}
                /\ pc' = [pc EXCEPT ![a] = "idle"]
                /\ validation_results' =
                      [validation_results EXCEPT ![a] = ValidationResult(TRUE, "", <<>>)]
           ELSE /\ files' = files
                /\ pc' = [pc EXCEPT ![a] = "v_rmtree_export"]
                /\ UNCHANGED validation_results
    /\ UNCHANGED <<fate, download_args, poolSize, mainpc, queue, held, dirs,
                   download_results, validation_args, calls, counts, loaded, report>>

\* shutil.rmtree(output_dir) of the two failure branches, then the return.
\* Without ignore_errors it raises when the directory is not there.
RemoveOutputDir(a) ==
    /\ mainpc \in {"validate", "objaverse"}
    /\ pc[a] \in {"v_rmtree_invalid", "v_rmtree_export"}
    /\ pc' = [pc EXCEPT ![a] = "idle"]
    /\ IF OutputDir(a) \in dirs
       THEN /\ dirs' = RmtreeDirs(dirs, OutputDir(a))
            /\ files' = RmtreeFiles(files, OutputDir(a))
            /\ validation_results' =
                  [validation_results EXCEPT
                      ![a] = IF pc[a] = "v_rmtree_invalid"
                             THEN ValidationResult(FALSE, "invalid", held[a])
                             ELSE ValidationResult(FALSE, "export error", <<>>)]
       ELSE /\ UNCHANGED <<dirs, files>>
            /\ validation_results' =
                  [validation_results EXCEPT ![a] = RaisedResult(pc[a])]
    /\ UNCHANGED <<fate, download_args, poolSize, mainpc, queue, held,
                   download_results, validation_args, calls, counts, loaded, report>>

SomeRaised(as) == \E a \in as : validation_results[a].kind = "raised"

\* The second pool.map has all its results, or re-raises the exception of a
\* task once every task is done.  Then download_and_filter_models: each
\* model gets its directory save_dir/uid and its file is moved there; a
\* failed load_objects raises.
ValidateStageDone ==
    /\ mainpc = "validate"
    /\ queue = <<>>
    /\ Running = {}
    /\ IF SomeRaised(Range(download_args)) \/ ~fate[Uid].dl
       THEN /\ mainpc' = "crashed"
            /\ dirs' = IF SomeRaised(Range(download_args)) THEN dirs
                       ELSE dirs \cup {OutputDir(Uid)}
            /\ UNCHANGED <<queue, files, validation_args, download_results>>
       ELSE /\ mainpc' = "objaverse"
            /\ queue' = Uids
            /\ dirs' = dirs \cup {OutputDir(Uid)}
            /\ files' = files \cup {FileIn(OutputDir(Uid), UidName)}
            /\ validation_args' =
                  [validation_args EXCEPT ![Uid] = FileIn(OutputDir(Uid), UidName)]
            /\ download_results' =
                  [download_results EXCEPT
                      ![Uid] = DownloadResult(TRUE, FileIn(OutputDir(Uid), UidName))]
    /\ UNCHANGED <<fate, download_args, poolSize, pc, held, validation_results,
                   calls, counts, loaded, report>>

\* The loop over objaverse_models is over (or an exception left it) and the
\* two counts are computed.
Finish ==
    /\ mainpc = "objaverse"
    /\ Running = {}
    /\ IF SomeRaised(Range(Uids))
       THEN /\ mainpc' = "crashed"
            /\ UNCHANGED counts
       ELSE /\ queue = <<>>
            /\ mainpc' = "done"
            /\ counts' =
                  [valid_gobjaverse_count |->
                      Cardinality({a \in Range(valid_glb_files(download_args, download_results)) :
                                      validation_results[a].success}),
                   valid_objaverse_count |->
                      Cardinality({a \in Range(Uids) : validation_results[a].success})]
    /\ UNCHANGED <<fate, download_args, poolSize, queue, pc, held, dirs, files,
                   download_results, validation_args, validation_results, calls,
                   loaded, report>>

Next ==
    \/ \E a \in Assets :
          \/ DownloadStart(a)
          \/ WgetOpen(a)
          \/ WgetExit(a)
          \/ ValidateStart(a)
          \/ ValidatorRun(a)
          \/ ExtractTextures(a)
          \/ ExportObj(a)
          \/ RemoveOutputDir(a)
    \/ DownloadStageDone
    \/ ValidateStageDone
    \/ Finish

Spec == Init /\ [][Next]_vars


(***************************************************************************)
(* SpecV: one GLBMeshValidator, constructed for a file whose load gives    *)
(* `loaded`, and one call of validate().                                   *)
(***************************************************************************)
\* No pipeline runs: main() has not been entered.
PipelineIdle ==
    /\ fate = [a \in Assets |-> CHOOSE f \in Fates : TRUE]
    /\ download_args = <<>>
    /\ poolSize = 1
    /\ mainpc = "idle"
    /\ queue = <<>>
    /\ pc = [a \in Assets |-> "idle"]
    /\ held = [a \in Assets |-> <<>>]
    /\ dirs = {}
    /\ files = {}
    /\ download_results = [a \in Assets |-> NoResult]
    /\ validation_args = [a \in Assets |-> NoPath]
    /\ validation_results = [a \in Assets |-> NoResult]
    /\ calls = [a \in Assets |-> [download |-> 0, validate |-> 0]]
    /\ counts = NoCounts

InitV ==
    /\ loaded \in LoadedObjects
    /\ report = NoReport
    /\ PipelineIdle

ValidateCall ==
    /\ report = NoReport
    /\ report' = validate(loaded)
    /\ UNCHANGED loaded
    /\ UNCHANGED pvars

NextV == ValidateCall

SpecV == InitV /\ [][NextV]_vars

(***************************************************************************)
(* Vocabulary of the validator claims.                                     *)
(***************************************************************************)
Validated == report # NoReport

\* validate() returned a pair (it did not leave by an exception).
ReturnedPair == Validated /\ ~report.raised

Tags(errors) == {errors[k].tag : k \in 1..Len(errors)}

\* Entries that record something seen on the way without failing anything.
DiagnosticTags ==
    {"Detected Path3D object.", "Converted Path3D to Trimesh.",
     "Skipping face", "Error processing face"}

\* The check an entry of self.errors belongs to (0: load_mesh).
CheckRank(tag) ==
    CASE tag = "Too many faces" -> 1
      [] tag = "Mesh has no faces." -> 2
      [] tag = "Mesh has degenerate faces." -> 3
      [] tag \in {"Skipping face", "Error processing face",
                  "Severe self-intersections detected",
                  "Error detecting self-intersections"} -> 4
      [] tag = "Mesh has inconsistent face normal orientations." -> 5
      [] OTHER -> 0

\* The reason with which check k fails.
FailureTags(k) ==
    CASE k = 1 -> {"Too many faces"}
      [] k = 2 -> {"Mesh has no faces."}
      [] k = 3 -> {"Mesh has degenerate faces."}
      [] k = 4 -> {"Severe self-intersections detected",
                   "Error detecting self-intersections"}
      [] OTHER -> {"Mesh has inconsistent face normal orientations."}

RECURSIVE CountOutcome(_, _)
CountOutcome(runs, outcomes) ==
    IF runs = <<>> THEN 0
    ELSE (IF Head(runs).outcome \in outcomes THEN Head(runs).count ELSE 0)
            + CountOutcome(Tail(runs), outcomes)

CountTag(errors, tags) == Cardinality({k \in 1..Len(errors) : errors[k].tag \in tags})

\* C3 as stated: passed is true iff the reason list is empty.
C3_PassedIffNoReasons ==
    ReturnedPair => (report.passed <=> report.errors = <<>>)

\* C3, amended: a failed validation carries at least one reason, and the
\* list of a passed validation holds nothing but diagnostics (Path3D
\* detection / conversion notes, per-face skip and query-error notes).
C3_FailedHasReason ==
    ReturnedPair =>
        /\ ~report.passed => report.errors # <<>>
        /\ report.passed => Tags(report.errors) \subseteq DiagnosticTags

C3_Witness ==
    /\ ReturnedPair
    /\ report.passed
    /\ "Converted Path3D to Trimesh." \in Tags(report.errors)

\* C4: on a polygonal mesh all five enabled checks run once, in the fixed
\* order, whatever the earlier ones returned; passed is the conjunction of
\* the five results; check k failed iff its reason is in the list; and the
\* reasons are in check execution order.
C4_NoShortCircuit ==
    (Validated /\ report.mesh.kind = "Trimesh") =>
        /\ ~report.raised
        /\ report.ran = EnabledChecks
        /\ Len(report.results) = 5
        /\ report.passed <=> (\A k \in 1..5 : report.results[k])
        /\ \A k \in 1..5 :
              ~report.results[k] <=> (FailureTags(k) \cap Tags(report.errors) # {})
        /\ \A i, j \in 1..Len(report.errors) :
              i < j => CheckRank(report.errors[i].tag) <= CheckRank(report.errors[j].tag)

\* A mesh that fails the first check and a later one: both reasons are there.
C4_Witness ==
    /\ Validated
    /\ report.mesh.kind = "Trimesh"
    /\ ~report.results[1]
    /\ ~report.results[5]
    /\ {"Too many faces", "Mesh has inconsistent face normal orientations."}
          \subseteq Tags(report.errors)

\* What container / path normalization leaves of the loaded object, where
\* it leaves one object: the single geometry of a scene, the mesh a path
\* converts to, the path itself when conversion gives nothing.
HasNormalForm(obj) ==
    \/ obj.kind \in {"Trimesh", "PointCloud"}
    \/ obj.kind = "Scene" /\ Len(obj.geometry) = 1
    \/ obj.kind = "Path3D" /\ obj.conv \in {"mesh", "none"}

NormalForm(obj) ==
    CASE obj.kind = "Scene" -> obj.geometry[1]
      [] obj.kind = "Path3D" /\ obj.conv = "mesh" -> obj.mesh
      [] OTHER -> obj

\* C5: a normalized object that is no polygonal mesh is rejected with an
\* InvalidType reason naming its type, and no check runs on it.
C5_NonMeshIsInvalidType ==
    (Validated /\ HasNormalForm(loaded) /\ NormalForm(loaded).kind # "Trimesh") =>
        /\ ~report.raised
        /\ ~report.passed
        /\ report.ran = <<>>
        /\ \E k \in 1..Len(report.errors) :
              report.errors[k] = MsgT("Invalid mesh type", NormalForm(loaded).kind)

\* C6: a scene of n > 1 geometries gives the MultipleObjects reason with n,
\* no mesh, a failed validation and no check invoked.
C6_MultipleObjects ==
    (Validated /\ loaded.kind = "Scene" /\ Len(loaded.geometry) > 1) =>
        /\ report.errors =
              <<MsgN("Scene contains multiple objects", Len(loaded.geometry))>>
        /\ report.mesh = None
        /\ ~report.raised
        /\ ~report.passed
        /\ report.ran = <<>>

C6_Witness ==
    /\ Validated
    /\ loaded.kind = "Scene"
    /\ Len(loaded.geometry) = 3
    /\ loaded.geometry[1] = Cube
    /\ ~report.passed

\* The scan ran over all faces: the mesh is a Trimesh and the spatial index
\* was built.
Scanned == Validated /\ report.mesh.kind = "Trimesh" /\ report.mesh.index_ok

\* C7: after the scan, SelfIntersection fails exactly when
\* intersecting faces / all faces > 7/10, and then the reason carries the
\* intersecting count.
C7_FailsIffRatioAboveThreshold ==
    Scanned =>
        LET hits == CountOutcome(report.mesh.faces, {"hit"})
            total == NFaces(report.mesh)
        IN  /\ ~report.results[4]
                  <=> hits * SEVERITY_THRESHOLD_DEN > SEVERITY_THRESHOLD_NUM * total
            /\ ~report.results[4] =>
                  MsgN("Severe self-intersections detected", hits)
                      \in {report.errors[k] : k \in 1..Len(report.errors)}

\* C8: every malformed face and every face whose query raised leaves one
\* diagnostic and the scan goes on; the whole check fails outright only
\* when the spatial index cannot be built.
C8_OnlyIndexFailureAborts ==
    (Validated /\ report.mesh.kind = "Trimesh") =>
        /\ report.mesh.index_ok =>
              /\ CountTag(report.errors, {"Skipping face"})
                    = CountOutcome(report.mesh.faces, {"malformed"})
              /\ CountTag(report.errors, {"Error processing face"})
                    = CountOutcome(report.mesh.faces, {"error"})
        /\ "Error detecting self-intersections" \in Tags(report.errors)
              => ~report.mesh.index_ok

(***************************************************************************)
(* Vocabulary of the pipeline claims.                                      *)
(***************************************************************************)
\* The lifecycle status of an asset, read off what the program holds for it:
\* the download result, the position of its validation task, and what that
\* task returned or where it raised.
Status(a) ==
    IF download_results[a] = NoResult THEN "Pending"
    ELSE IF ~download_results[a].success THEN "AcquisitionFailed"
    ELSE LET v == validation_results[a]
             at == IF v.kind = "raised" THEN v.at ELSE pc[a]
         IN  CASE v.kind = "validation" /\ v.success -> "Exported"
               [] v.kind = "validation" /\ v.message = "invalid" -> "Invalid"
               [] v.kind = "validation" /\ v.message = "export error" -> "ExportFailed"
               [] v.kind = "validation" /\ v.message = "File does not exist" -> "Acquired"
               [] at \in {"v_extract", "v_export", "extract"} -> "Valid"
               [] at = "v_rmtree_invalid" -> "Invalid"
               [] at = "v_rmtree_export" -> "ExportFailed"
               [] OTHER -> "Acquired"

Terminal(st) == st \in {"AcquisitionFailed", "Invalid", "Exported", "ExportFailed"}

\* Pending -> {Acquired | AcquisitionFailed}, Acquired -> {Valid | Invalid},
\* Valid -> {Exported | ExportFailed}.
Forward(from, to) ==
    \/ from = "Pending" /\ to \in {"Acquired", "AcquisitionFailed"}
    \/ from = "Acquired" /\ to \in {"Valid", "Invalid"}
    \/ from = "Valid" /\ to \in {"Exported", "ExportFailed"}

RunOver == mainpc \in {"done", "crashed"}

\* The assets the run worked on.
Processed == {a \in Assets : calls[a].download > 0 \/ download_results[a] # NoResult}

\* C1: after the run, no asset whose final status is not Exported has an
\* output directory.
C1_FailureCleanup ==
    RunOver =>
        \A a \in Processed : Status(a) # "Exported" => OutputDir(a) \notin dirs

\* C2: no error escapes validate_and_convert_glb: every call returns an
\* (id, success, reasons) outcome, and main() is not ended by an exception
\* of a task.
C2_FailureIsolation ==
    /\ \A a \in Assets : validation_results[a].kind # "raised"
    /\ RunOver => \A a \in Assets :
          calls[a].validate > 0 => validation_results[a].kind = "validation"

\* C9: each asset is downloaded at most once and validated at most once,
\* validation is called only after a successful download and with the path
\* it returned, the status only moves forward along the lifecycle, and
\* nothing is called for an asset whose status is terminal.
C9_Lifecycle ==
    [][\A a \in Assets :
          /\ calls'[a].download <= 1
          /\ calls'[a].validate <= 1
          /\ calls'[a].validate > calls[a].validate =>
                /\ download_results[a].kind = "download"
                /\ download_results[a].success
                /\ validation_args'[a] = download_results[a].path
                /\ validation_args'[a] # NoPath
          /\ Status(a)' = Status(a) \/ Forward(Status(a), Status(a)')
          /\ Terminal(Status(a)) => calls'[a] = calls[a] /\ Status(a)' = Status(a)
      ]_vars

\* A run that ended with one asset exported and another never validated
\* because its download failed.
C9_Witness ==
    /\ mainpc = "done"
    /\ \E a, b \in Range(download_args) :
          /\ Status(a) = "Exported" /\ calls[a].validate = 1
          /\ Status(b) = "AcquisitionFailed" /\ calls[b].validate = 0

\* What asset a comes to when it is processed alone: its own download,
\* validation, texture extraction and export all succeed.
OwnSuccess(a) ==
    /\ fate[a].dl
    /\ validate(FileContent(fate[a].content)).passed
    /\ fate[a].tex
    /\ fate[a].exp

\* C10: the valid count equals the number of ids whose own validation and
\* export succeed, whatever the pool size and the order of completion.
C10_CountIsOrderIndependent ==
    mainpc = "done" =>
        counts.valid_gobjaverse_count
            = Cardinality({a \in Range(download_args) : OwnSuccess(a)})

\* The file download_glb_file acquired for a, and what a successful
\* validate_and_convert_glb leaves next to it.
AcquiredFile(a) == download_results[a].path
ExportedFiles(a) ==
    {FileIn(OutputDir(a), <<AcquiredFile(a).name[1], "obj">>),
     FileIn(OutputDir(a), <<"pbr_textures", "json">>)}

\* C11: tasks for distinct asset ids use distinct output directories, so
\* the directory deletion of one asset's failure never removes another
\* asset's files: an asset that is acquired, valid or exported (its own
\* task has deleted nothing) still has its acquired file, and an exported
\* asset its exported files.
C11_OutputPartitioning ==
    /\ \A a, b \in Processed : a # b => OutputDir(a) # OutputDir(b)
    /\ \A a \in Processed :
          /\ Status(a) \in {"Acquired", "Valid", "Exported"} => AcquiredFile(a) \in files
          /\ Status(a) = "Exported" => ExportedFiles(a) \subseteq files

\* The second half of C11 alone: what the shared directory leads to.
C11_NoForeignDeletion ==
    \A a \in Processed :
        /\ Status(a) \in {"Acquired", "Valid", "Exported"} => AcquiredFile(a) \in files
        /\ Status(a) = "Exported" => ExportedFiles(a) \subseteq files

\* validate_and_convert_glb(a) was called and has ended, by a return or by
\* an exception.
TaskEnded(a) ==
    calls[a].validate > 0 /\ pc[a] = "idle" /\ validation_results[a] # NoResult

\* The validator passed the file of a: the task is at, or went beyond, the
\* call of extract_pbr_textures.
ReachedExtraction(a) ==
    \/ pc[a] \in {"v_extract", "v_export", "v_rmtree_export"}
    \/ validation_results[a] = RaisedResult("extract")
    \/ validation_results[a] = RaisedResult("v_rmtree_export")
    \/ validation_results[a].kind = "validation"
          /\ validation_results[a].message \in {"", "export error"}

\* The mesh export of a succeeds: the library exports the mesh and the
\* acquired file and its directory are there.
ExportSucceeds(a) ==
    fate[a].exp /\ validation_args[a] \in files /\ OutputDir(a) \in dirs

\* C12: texture extraction is invoked only for assets whose validation
\* passed, and whether it succeeds or fails, an asset that passed validation
\* and whose mesh export succeeds is recorded as Exported once its task has
\* ended.
C12_ExtractionNeverChangesOutcome ==
    \A a \in Processed :
        /\ ReachedExtraction(a) =>
              LET r == validate(FileContent(fate[a].content))
              IN  ~r.raised /\ r.passed
        /\ TaskEnded(a) /\ ReachedExtraction(a) /\ ExportSucceeds(a) =>
              Status(a) = "Exported"

\* The first half of C12 alone.
C12_ExtractionOnlyAfterPass ==
    \A a \in Processed :
        ReachedExtraction(a) =>
            LET r == validate(FileContent(fate[a].content))
            IN  ~r.raised /\ r.passed

====
